---- MODULE Spec2Model ----
(***************************************************************************)
(* Inventory ledger and purchase-order workflow of the warehouse backend.  *)
(* The four tables the handlers write (inventory, stock_movements,         *)
(* purchase_orders, purchase_order_items) are the state; every route       *)
(* handler is one action: it stages its writes in the ORM session and the  *)
(* session is committed, rolled back (exception) or discarded (early       *)
(* return) as the handler's code does. For requests served at the same     *)
(* time a handler is two actions, its queries and its commit.              *)
(***************************************************************************)
EXTENDS Integers, Sequences, FiniteSets, TLC

\* ---- bounds of the model ------------------------------------------------
NumProducts == 1
NumWarehouses == 2
MaxQty == 1
MaxMovements == 3
MaxOrders == 1
MaxItems == 2
MaxCsvRows == 2
NumSessions == 2

Products == 1..NumProducts
Warehouses == 1..NumWarehouses
\* requests that may be in progress at the same time
Sessions == 1..NumSessions
\* quantities a caller may pass (negative, zero and positive)
Quantities == (0 - MaxQty)..MaxQty
\* movement_type values a caller may pass to /inventory/adjust
MovementTypes == {"in", "out"}

\* quantities and unit prices a caller may put on a purchase order item
OrderQuantities == {-1, 0, 2}
UnitPrices == {0, 3}
\* the five statuses of a purchase order
Statuses == {"pending", "approved", "ordered", "received", "cancelled"}
\* status values a caller may pass to PUT /purchase-orders/<id>; NoField
\* stands for a body without the status field
NoField == "(absent)"
UpdateStatuses == Statuses \cup {"shipped", NoField}

VARIABLES
    inventory,              \* table inventory: sequence of rows, id = index
    stock_movements,        \* table stock_movements: sequence of rows, id = index
    purchase_orders,        \* table purchase_orders: sequence of rows, id = index
    purchase_order_items,   \* table purchase_order_items: rows, id = index
    response,               \* last handler that ran and the HTTP status it returned
    in_flight               \* per session: the handler in progress and what its
                            \* ORM session holds

vars == <<inventory, stock_movements, purchase_orders, purchase_order_items, response,
          in_flight>>

Pairs == Products \X Warehouses

\* ---- the ORM session ----------------------------------------------------
\* committed content of the tables
DB ==
    [inventory |-> inventory, stock_movements |-> stock_movements,
     purchase_orders |-> purchase_orders, purchase_order_items |-> purchase_order_items]

\* Inventory.query.filter_by(product_id=p, warehouse_id=w).first():
\* id of the row, 0 when there is none
FindInventory(inv, p, w) ==
    LET ids == {i \in 1..Len(inv) : inv[i].product_id = p /\ inv[i].warehouse_id = w}
    IN  IF ids = {} THEN 0 ELSE CHOOSE i \in ids : \A j \in ids : i <= j

\* Inventory(product_id=p, warehouse_id=w, quantity=q); db.session.add(..)
AddInventory(inv, p, w, q) ==
    Append(inv, [product_id |-> p, warehouse_id |-> w, quantity |-> q])

\* get-or-create: the table with the row present, and the row's id
GetOrCreate(inv, p, w) ==
    IF FindInventory(inv, p, w) = 0
    THEN [inv |-> AddInventory(inv, p, w, 0), id |-> Len(inv) + 1]
    ELSE [inv |-> inv, id |-> FindInventory(inv, p, w)]

\* StockMovement(...); change is history only: the signed change of the
\* row's quantity that the movement recorded
Movement(p, w, type, qty, ref_type, ref_id, change) ==
    [product_id |-> p, warehouse_id |-> w, movement_type |-> type,
     quantity |-> qty, reference_type |-> ref_type, reference_id |-> ref_id,
     change |-> change]

\* db.session.add(stock_movement): a new row at the end of the table
add_movement_over(log, m) ==
    IF log = <<>> THEN <<m>> ELSE [log EXCEPT ![Len(log)] = m]

add_movement(log, m) == Append(log, m)

abs(x) == IF x < 0 THEN 0 - x ELSE x

\* The handler's try block run to its end: steps are the successive contents
\* of the session; fault is the step at which an exception is raised (0: none).
\* db.session.commit() persists the last step; the except clause rolls back.
Persist_autocommit(before, steps, fault) ==
    IF fault = 0 THEN steps[Len(steps)]
    ELSE IF fault = 1 THEN before ELSE steps[fault - 1]

Persist(before, steps, fault) ==
    IF fault = 0 THEN steps[Len(steps)] ELSE before

\* An early return without commit: the request's session is removed when the
\* request ends and its pending writes are dropped.
Discard_kept(before, session) == session

Discard(before, session) == before

\* ---- history ------------------------------------------------------------
Quantity(inv, p, w) ==
    IF FindInventory(inv, p, w) = 0 THEN 0
    ELSE inv[FindInventory(inv, p, w)].quantity

HasRow(inv, p, w) == FindInventory(inv, p, w) # 0

\* the tables stay within the bounds of the model
Bounded(db) ==
    /\ Len(db.stock_movements) <= MaxMovements
    /\ \/ Len(db.purchase_orders) <= MaxOrders
       \/ Len(db.purchase_orders) <= Len(purchase_orders)

SetTables(db) ==
    /\ Bounded(db)
    /\ inventory' = db.inventory
    /\ stock_movements' = db.stock_movements
    /\ purchase_orders' = db.purchase_orders
    /\ purchase_order_items' = db.purchase_order_items

\* a session with nothing in progress
Idle == [op |-> "idle", rows |-> <<>>, movements |-> <<>>]

\* a handler that runs from its first query to its end with no other request
\* in between
SetDB(db) ==
    /\ SetTables(db)
    /\ in_flight' = in_flight

Init ==
    /\ inventory = <<>>
    /\ stock_movements = <<>>
    /\ purchase_orders = <<>>
    /\ purchase_order_items = <<>>
    /\ response = [op |-> "none", code |-> 0]
    /\ in_flight = [s \in Sessions |-> Idle]

\* points of adjust_inventory at which an exception may be raised: 0 none,
\* 1 after the row is added, 2 after the quantity is set, 3 in the commit
AdjustFaults == 0..3
\* points of transfer_inventory: 0 none, 1 after the destination row is added,
\* 2 after the source is debited, 3 after the destination is credited,
\* 4 in the commit
TransferFaults == 0..4

\* ---- POST /inventory/adjust ----------------------------------------------
\* the reference_type and reference_id of a request body: both left out, or
\* a reference to a purchase order
NoReference == [type |-> "none", id |-> 0]
References == {NoReference} \cup [type : {"purchase_order"}, id : 1..MaxOrders]

\* the movement_type of a request body: a type, or the field left out
AdjustTypes == MovementTypes \cup {NoField}

adjust_new_quantity_sub(quantity, quantity_change) == quantity - quantity_change

adjust_new_quantity(quantity, quantity_change) == quantity + quantity_change

adjust_inventory(p, w, quantity_change, movement_type, reference, fault) ==
    LET got == GetOrCreate(inventory, p, w)
        s1 == [DB EXCEPT !.inventory = got.inv]
        new_quantity == adjust_new_quantity(got.inv[got.id].quantity, quantity_change)
        s2 == [s1 EXCEPT !.inventory[got.id].quantity = new_quantity]
        s3 == [s2 EXCEPT !.stock_movements =
                  add_movement(@, Movement(p, w, movement_type, abs(quantity_change),
                                     reference.type, reference.id, quantity_change))]
    IN  IF movement_type = NoField
        THEN /\ SetDB(Discard(DB, DB))
             /\ response' = [op |-> "adjust", code |-> 400]
             /\ fault = 0
        ELSE IF new_quantity < 0
        THEN /\ SetDB(Discard(DB, s1))
             /\ response' = [op |-> "adjust", code |-> 400]
             /\ fault = 0
        ELSE /\ SetDB(Persist(DB, <<s1, s2, s3>>, fault))
             /\ response' = [op |-> "adjust", code |-> IF fault = 0 THEN 200 ELSE 500]

\* ---- POST /inventory/transfer --------------------------------------------
transfer_insufficient_norow(inv, p, from, quantity) ==
    FindInventory(inv, p, from) = 0

transfer_insufficient_le(inv, p, from, quantity) ==
    FindInventory(inv, p, from) = 0 \/ inv[FindInventory(inv, p, from)].quantity <= quantity

transfer_insufficient(inv, p, from, quantity) ==
    FindInventory(inv, p, from) = 0 \/ inv[FindInventory(inv, p, from)].quantity < quantity

transfer_inventory(p, from, to, quantity, fault) ==
    IF transfer_insufficient(inventory, p, from, quantity)
    THEN /\ SetDB(Discard(DB, DB))
         /\ response' = [op |-> "transfer", code |-> 400]
         /\ fault = 0
    ELSE LET source == FindInventory(inventory, p, from)
             got == GetOrCreate(inventory, p, to)
             s1 == [DB EXCEPT !.inventory = got.inv]
             s2 == [s1 EXCEPT !.inventory[source].quantity = @ - quantity]
             s3 == [s2 EXCEPT !.inventory[got.id].quantity = @ + quantity]
             s4 == [s3 EXCEPT !.stock_movements =
                       @ \o <<Movement(p, from, "out", quantity, "transfer", 0, 0 - quantity),
                              Movement(p, to, "in", quantity, "transfer", 0, quantity)>>]
         IN  /\ SetDB(Persist(DB, <<s1, s2, s3, s4>>, fault))
             /\ response' = [op |-> "transfer", code |-> IF fault = 0 THEN 200 ELSE 500]

\* ---- POST /barcode/scan-receive ------------------------------------------
\* p is the product the barcode resolves to
scan_receive(p, w, quantity) ==
    IF quantity <= 0
    THEN /\ SetDB(Discard(DB, DB))
         /\ response' = [op |-> "scan_receive", code |-> 400]
    ELSE LET got == GetOrCreate(inventory, p, w)
             s1 == [DB EXCEPT !.inventory = got.inv]
             s2 == [s1 EXCEPT !.inventory[got.id].quantity = @ + quantity]
             s3 == [s2 EXCEPT !.stock_movements =
                       add_movement(@, Movement(p, w, "in", quantity, "barcode_scan", 0, quantity))]
         IN  /\ SetDB(Persist(DB, <<s1, s2, s3>>, 0))
             /\ response' = [op |-> "scan_receive", code |-> 200]

\* ---- POST /barcode/scan-issue --------------------------------------------
scan_issue(p, w, quantity) ==
    LET id == FindInventory(inventory, p, w)
    IN  IF quantity <= 0
        THEN /\ SetDB(Discard(DB, DB))
             /\ response' = [op |-> "scan_issue", code |-> 400]
        ELSE IF id = 0
        THEN /\ SetDB(Discard(DB, DB))
             /\ response' = [op |-> "scan_issue", code |-> 404]
        ELSE IF inventory[id].quantity < quantity
        THEN /\ SetDB(Discard(DB, DB))
             /\ response' = [op |-> "scan_issue", code |-> 400]
        ELSE LET s1 == [DB EXCEPT !.inventory[id].quantity = @ - quantity]
                 s2 == [s1 EXCEPT !.stock_movements =
                           add_movement(@, Movement(p, w, "out", quantity, "barcode_scan", 0,
                                              0 - quantity))]
             IN  /\ SetDB(Persist(DB, <<s1, s2>>, 0))
                 /\ response' = [op |-> "scan_issue", code |-> 200]

\* ---- POST /barcode/scan-count --------------------------------------------
\* the count records a movement
count_recorded_always(adjustment) == TRUE

count_recorded(adjustment) == adjustment # 0

\* the quantity the count leaves on the row
count_quantity_added(old_quantity, counted_quantity) == old_quantity + counted_quantity

count_quantity(old_quantity, counted_quantity) == counted_quantity

scan_count(p, w, counted_quantity) ==
    IF counted_quantity < 0
    THEN /\ SetDB(Discard(DB, DB))
         /\ response' = [op |-> "scan_count", code |-> 400]
    ELSE LET got == GetOrCreate(inventory, p, w)
             s1 == [DB EXCEPT !.inventory = got.inv]
             old_quantity == got.inv[got.id].quantity
             adjustment == counted_quantity - old_quantity
             s2 == [s1 EXCEPT !.inventory[got.id].quantity =
                       count_quantity(old_quantity, counted_quantity)]
             s3 == IF count_recorded(adjustment)
                   THEN [s2 EXCEPT !.stock_movements =
                            add_movement(@, Movement(p, w, "adjustment", abs(adjustment),
                                               "barcode_count", 0, adjustment))]
                   ELSE s2
         IN  /\ SetDB(Persist(DB, <<s1, s2, s3>>, 0))
             /\ response' = [op |-> "scan_count", code |-> 200]

\* ---- POST /inventory ------------------------------------------------------
create_inventory_item(p, w, quantity) ==
    IF FindInventory(inventory, p, w) # 0
    THEN /\ SetDB(Discard(DB, DB))
         /\ response' = [op |-> "create_item", code |-> 409]
    ELSE /\ SetDB(Persist(DB, <<[DB EXCEPT !.inventory = AddInventory(@, p, w, quantity)]>>, 0))
         /\ response' = [op |-> "create_item", code |-> 201]

\* ---- PUT /inventory/<inventory_id> ----------------------------------------
\* has_data is FALSE for a request without a body
update_inventory_item(inventory_id, has_data, quantity) ==
    IF ~has_data
    THEN /\ SetDB(Discard(DB, DB))
         /\ response' = [op |-> "update_item", code |-> 400]
    ELSE /\ SetDB(Persist(DB, <<[DB EXCEPT !.inventory[inventory_id].quantity = quantity]>>, 0))
         /\ response' = [op |-> "update_item", code |-> 200]

\* ---- POST /csv/import/inventory -------------------------------------------
\* the rows of an uploaded file: up to MaxCsvRows rows
CsvRows == [product_id : Products, warehouse_id : Warehouses, quantity : Quantities]
CsvFiles == UNION {[1..k -> CsvRows] : k \in 1..MaxCsvRows}

RECURSIVE import_rows(_, _, _)
\* the loop over the rows of the file
import_rows(s, rows, update_existing) ==
    IF rows = <<>> THEN s
    ELSE LET row == Head(rows)
             existing_item == FindInventory(s.inventory, row.product_id, row.warehouse_id)
             s1 == IF existing_item # 0 /\ ~update_existing THEN s
                   ELSE IF existing_item # 0
                   THEN [s EXCEPT !.inventory[existing_item].quantity = row.quantity]
                   ELSE [s EXCEPT !.inventory =
                            AddInventory(@, row.product_id, row.warehouse_id, row.quantity)]
         IN  import_rows(s1, Tail(rows), update_existing)

import_inventory(rows, update_existing) ==
    /\ SetDB(Persist(DB, <<import_rows(DB, rows, update_existing)>>, 0))
    /\ response' = [op |-> "import", code |-> 200]

\* ---- POST /purchase-orders ------------------------------------------------
\* the items lists a caller may send: up to MaxItems items
ItemData == [product_id : Products \cup {NumProducts + 1},
             quantity : OrderQuantities, unit_price : UnitPrices]
ItemLists == UNION {[1..k -> ItemData] : k \in 0..MaxItems}

\* PurchaseOrder.items: the ids of the items of order po_id
ItemsOf(items, po_id) ==
    {i \in 1..Len(items) : items[i].purchase_order_id = po_id}

\* the amount an item adds to total_amount
item_amount_price(item_data) == item_data.unit_price

item_amount(item_data) == item_data.quantity * item_data.unit_price

RECURSIVE create_items(_, _, _, _)
\* the loop over data['items']: the session and the status code it ends with
create_items(s, po_id, items, total_amount) ==
    IF items = <<>>
    THEN [code |-> 201,
          session |-> [s EXCEPT !.purchase_orders[po_id].total_amount = total_amount]]
    ELSE LET item_data == Head(items)
         IN  IF item_data.quantity = 0 \/ item_data.unit_price = 0
             THEN [code |-> 400, session |-> s]
             ELSE IF item_data.product_id \notin Products
             THEN [code |-> 404, session |-> s]
             ELSE create_items(
                     [s EXCEPT !.purchase_order_items =
                         Append(@, [purchase_order_id |-> po_id,
                                    product_id |-> item_data.product_id,
                                    quantity |-> item_data.quantity,
                                    unit_price |-> item_data.unit_price,
                                    received_quantity |-> 0])],
                     po_id, Tail(items),
                     total_amount + item_amount(item_data))

create_purchase_order(supplier_found, items) ==
    IF items = <<>>
    THEN /\ SetDB(Discard(DB, DB))
         /\ response' = [op |-> "create", code |-> 400]
    ELSE IF ~supplier_found
    THEN /\ SetDB(Discard(DB, DB))
         /\ response' = [op |-> "create", code |-> 404]
    ELSE LET s1 == [DB EXCEPT !.purchase_orders =
                       Append(@, [status |-> "pending", total_amount |-> 0,
                                  actual_delivery |-> FALSE])]
             done == create_items(s1, Len(s1.purchase_orders), items, 0)
         IN  /\ SetDB(IF done.code = 201 THEN Persist(DB, <<done.session>>, 0)
                      ELSE Discard(DB, done.session))
             /\ response' = [op |-> "create", code |-> done.code]

update_allowed_received(status) == status \in {"pending", "approved", "received"}

update_allowed(status) == status \in {"pending", "approved"}

update_purchase_order(po_id, status) ==
    IF ~update_allowed(purchase_orders[po_id].status)
    THEN /\ SetDB(Discard(DB, DB))
         /\ response' = [op |-> "update", code |-> 409]
    ELSE LET s1 == IF status = NoField THEN DB
                   ELSE [DB EXCEPT !.purchase_orders[po_id].status = status]
         IN  /\ SetDB(Persist(DB, <<s1>>, 0))
             /\ response' = [op |-> "update", code |-> 200]

\* ---- POST /purchase-orders/<po_id>/approve --------------------------------
approve_allowed_approved(status) == status \in {"pending", "approved"}

approve_allowed(status) == status = "pending"

approve_purchase_order(po_id) ==
    IF ~approve_allowed(purchase_orders[po_id].status)
    THEN /\ SetDB(Discard(DB, DB))
         /\ response' = [op |-> "approve", code |-> 409]
    ELSE /\ SetDB(Persist(DB, <<[DB EXCEPT !.purchase_orders[po_id].status = "approved"]>>, 0))
         /\ response' = [op |-> "approve", code |-> 200]

\* ---- POST /purchase-orders/<po_id>/receive --------------------------------
\* the received_items lists a caller may send: up to MaxItems lines
\* ids up to the largest a purchase_order_items row can have; the ids beyond
\* the table's length are ids of no item
ItemIds == 1..(MaxOrders * MaxItems)
Lines == [po_item_id : ItemIds, received_quantity : Quantities]
LineLists == UNION {[1..k -> Lines] : k \in 0..MaxItems}

\* the guard of the loop body: the line is passed over
line_skipped_zero(line) == line.received_quantity = 0

line_skipped(line) == line.received_quantity <= 0

\* the item of the line exists and is an item of the order
item_of_order_any(items, po_item_id, po_id) == po_item_id <= Len(items)

item_of_order(items, po_item_id, po_id) ==
    /\ po_item_id <= Len(items)
    /\ items[po_item_id].purchase_order_id = po_id

\* po_item.received_quantity after a line
received_after_set(received_quantity, received) == received

received_after(received_quantity, received) == received_quantity + received

\* one pass of the loop over data['received_items']
receive_line(s, po_id, warehouse_id, line) ==
    IF line_skipped(line)
    THEN s
    ELSE IF ~item_of_order(s.purchase_order_items, line.po_item_id, po_id)
    THEN s
    ELSE LET po_item == s.purchase_order_items[line.po_item_id]
             got == GetOrCreate(s.inventory, po_item.product_id, warehouse_id)
         IN  [s EXCEPT
                 !.purchase_order_items[line.po_item_id].received_quantity =
                     received_after(@, line.received_quantity),
                 !.inventory = [got.inv EXCEPT ![got.id].quantity =
                                   @ + line.received_quantity],
                 !.stock_movements =
                     add_movement(@, Movement(po_item.product_id, warehouse_id, "in",
                                        line.received_quantity, "purchase_order", po_id,
                                        line.received_quantity))]

RECURSIVE receive_lines(_, _, _, _)
\* the successive contents of the session, one per line
receive_lines(s, po_id, warehouse_id, lines) ==
    IF lines = <<>> THEN <<>>
    ELSE LET s1 == receive_line(s, po_id, warehouse_id, Head(lines))
         IN  <<s1>> \o receive_lines(s1, po_id, warehouse_id, Tail(lines))

all_received(s, po_id) ==
    \A i \in ItemsOf(s.purchase_order_items, po_id) :
        s.purchase_order_items[i].received_quantity >= s.purchase_order_items[i].quantity

\* points of receive_purchase_order at which an exception may be raised:
\* 0 none, k in line k, Len(lines) + 1 in the commit
ReceiveFaults(lines) == 0..(Len(lines) + 1)

receive_allowed_pending(status) == status \in {"pending", "approved", "ordered"}

receive_allowed(status) == status \in {"approved", "ordered"}

receive_purchase_order(po_id, warehouse_id, lines, fault) ==
    IF ~receive_allowed(purchase_orders[po_id].status)
    THEN /\ SetDB(Discard(DB, DB))
         /\ response' = [op |-> "receive", code |-> 409]
         /\ fault = 0
    ELSE IF lines = <<>>
    THEN /\ SetDB(Discard(DB, DB))
         /\ response' = [op |-> "receive", code |-> 400]
         /\ fault = 0
    ELSE LET steps == receive_lines(DB, po_id, warehouse_id, lines)
             s == steps[Len(steps)]
             final == IF all_received(s, po_id)
                      THEN [s EXCEPT !.purchase_orders[po_id].status = "received",
                                     !.purchase_orders[po_id].actual_delivery = TRUE]
                      ELSE s
         IN  /\ SetDB(Persist(DB, Append(steps, final), fault))
             /\ response' = [op |-> "receive", code |-> IF fault = 0 THEN 200 ELSE 500]

\* ---- POST /purchase-orders/<po_id>/cancel ---------------------------------
cancel_purchase_order(po_id) ==
    IF purchase_orders[po_id].status \in {"received", "cancelled"}
    THEN /\ SetDB(Discard(DB, DB))
         /\ response' = [op |-> "cancel", code |-> 409]
    ELSE /\ SetDB(Persist(DB, <<[DB EXCEPT !.purchase_orders[po_id].status = "cancelled"]>>, 0))
         /\ response' = [op |-> "cancel", code |-> 200]

\* ---- DELETE /products/<product_id>, DELETE /warehouses/<warehouse_id> -------
\* the value of a foreign key that refers to no row
NullId == 0

\* db.session.delete(product): the rows that refer to the product through a
\* relationship without delete cascade get their product_id set to NULL
product_deleted(s, p) ==
    [s EXCEPT
        !.purchase_order_items =
            [i \in 1..Len(@) |->
                IF @[i].product_id = p THEN [@[i] EXCEPT !.product_id = NullId] ELSE @[i]],
        !.stock_movements =
            [i \in 1..Len(@) |->
                IF @[i].product_id = p THEN [@[i] EXCEPT !.product_id = NullId] ELSE @[i]]]

\* the flush raises: a column declared nullable=False is set to NULL
not_null_violated(s) ==
    \/ \E i \in 1..Len(s.purchase_order_items) : s.purchase_order_items[i].product_id = NullId
    \/ \E i \in 1..Len(s.stock_movements) :
          \/ s.stock_movements[i].product_id = NullId
          \/ s.stock_movements[i].warehouse_id = NullId

delete_product(p) ==
    IF \E i \in 1..Len(inventory) : inventory[i].product_id = p
    THEN /\ SetDB(Discard(DB, DB))
         /\ response' = [op |-> "delete_product", code |-> 409]
    ELSE LET s1 == product_deleted(DB, p)
             fault == IF not_null_violated(s1) THEN 1 ELSE 0
         IN  /\ SetDB(Persist(DB, <<s1>>, fault))
             /\ response' = [op |-> "delete_product",
                             code |-> IF fault = 0 THEN 200 ELSE 500]

\* db.session.delete(warehouse)
warehouse_deleted(s, w) ==
    [s EXCEPT
        !.stock_movements =
            [i \in 1..Len(@) |->
                IF @[i].warehouse_id = w THEN [@[i] EXCEPT !.warehouse_id = NullId]
                ELSE @[i]]]

delete_warehouse(w) ==
    IF \E i \in 1..Len(inventory) : inventory[i].warehouse_id = w
    THEN /\ SetDB(Discard(DB, DB))
         /\ response' = [op |-> "delete_warehouse", code |-> 409]
    ELSE LET s1 == warehouse_deleted(DB, w)
             fault == IF not_null_violated(s1) THEN 1 ELSE 0
         IN  /\ SetDB(Persist(DB, <<s1>>, fault))
             /\ response' = [op |-> "delete_warehouse",
                             code |-> IF fault = 0 THEN 200 ELSE 500]

\* ---- GET /reports/inventory-turnover ---------------------------------------
\* the rows of products JOIN stock_movements JOIN inventory for product p,
\* filtered to 'out' movements: every pair of an 'out' movement and an
\* inventory row of the product (every movement is taken to lie in the window)
turnover_join(inv, log, p) ==
    {<<m, i>> \in (1..Len(log)) \X (1..Len(inv)) :
        /\ log[m].product_id = p
        /\ log[m].movement_type = "out"
        /\ inv[i].product_id = p}

RECURSIVE SumJoin(_, _, _)
\* func.sum over the rows of the join of the column f
SumJoin(rows, f, acc) ==
    IF rows = {} THEN acc
    ELSE LET r == CHOOSE r \in rows : TRUE
         IN  SumJoin(rows \ {r}, f, acc + f[r])

\* the row of the report for product p: total_movement, and avg_inventory as
\* the sum and the count it is the quotient of
get_inventory_turnover(inv, log, p) ==
    LET rows == turnover_join(inv, log, p)
        movement_quantity == [r \in rows |-> log[r[1]].quantity]
        inventory_quantity == [r \in rows |-> inv[r[2]].quantity]
    IN  [reported |-> rows # {},
         total_movement |-> SumJoin(rows, movement_quantity, 0),
         avg_sum |-> SumJoin(rows, inventory_quantity, 0),
         avg_count |-> Cardinality(rows)]

\* ---- requests in progress at the same time --------------------------------
\* Each request has its own ORM session. A handler reads the rows it needs
\* with plain SELECTs when it queries, changes the loaded objects in memory,
\* and writes when db.session.commit() flushes: an INSERT for an object it
\* added, an UPDATE that sets the column to the value computed in memory for
\* a loaded object whose value changed.

\* uq_product_warehouse: an INSERT of a row for (p, w) is accepted
uq_product_warehouse_off(inv, p, w) == TRUE

uq_product_warehouse(inv, p, w) == FindInventory(inv, p, w) = 0

\* the object Inventory.query.filter_by(..).first() returns, or the new
\* object the handler adds when there is none (id 0: not yet inserted);
\* loaded is the quantity read, quantity the value in memory
Loaded(inv, p, w) ==
    [id |-> FindInventory(inv, p, w), product_id |-> p, warehouse_id |-> w,
     loaded |-> Quantity(inv, p, w), quantity |-> Quantity(inv, p, w)]

\* the value the UPDATE of a changed object writes over the row's current one
flushed_quantity_relative(current, row) == current + (row.quantity - row.loaded)

flushed_quantity(current, row) == row.quantity

RECURSIVE flush_rows(_, _)
\* the flush of the objects of a session: the table it leaves, or the
\* IntegrityError of an INSERT the unique constraint refuses
flush_rows(inv, rows) ==
    IF rows = <<>> THEN [ok |-> TRUE, inv |-> inv]
    ELSE LET row == Head(rows)
         IN  IF row.id = 0
             THEN IF uq_product_warehouse(inv, row.product_id, row.warehouse_id)
                  THEN flush_rows(AddInventory(inv, row.product_id, row.warehouse_id,
                                               row.quantity), Tail(rows))
                  ELSE [ok |-> FALSE, inv |-> inv]
             ELSE IF row.quantity # row.loaded
             THEN flush_rows([inv EXCEPT ![row.id].quantity = flushed_quantity(@, row)],
                             Tail(rows))
             ELSE flush_rows(inv, Tail(rows))

\* the early return of a handler before it has written
Return(op, code) ==
    /\ response' = [op |-> op, code |-> code]
    /\ UNCHANGED <<inventory, stock_movements, purchase_orders, purchase_order_items,
                   in_flight>>

\* the handler has run up to its db.session.commit()
Staged(s, op, rows, movements) ==
    /\ in_flight' = [in_flight EXCEPT ![s] = [op |-> op, rows |-> rows,
                                               movements |-> movements]]
    /\ UNCHANGED <<inventory, stock_movements, purchase_orders, purchase_order_items,
                   response>>

\* adjust_inventory from its query to the statement before the commit
adjust_read(s, p, w, quantity_change, movement_type) ==
    /\ in_flight[s] = Idle
    /\ LET inventory_item == Loaded(inventory, p, w)
           new_quantity == adjust_new_quantity(inventory_item.quantity, quantity_change)
       IN  IF new_quantity < 0
           THEN Return("adjust", 400)
           ELSE Staged(s, "adjust",
                       <<[inventory_item EXCEPT !.quantity = new_quantity]>>,
                       <<Movement(p, w, movement_type, abs(quantity_change), "none", 0,
                                  quantity_change)>>)

\* transfer_inventory from its queries to the statement before the commit
transfer_read(s, p, from, to, quantity) ==
    /\ in_flight[s] = Idle
    /\ LET source_inventory == Loaded(inventory, p, from)
           dest_inventory == Loaded(inventory, p, to)
           movements == <<Movement(p, from, "out", quantity, "transfer", 0, 0 - quantity),
                          Movement(p, to, "in", quantity, "transfer", 0, quantity)>>
       IN  IF transfer_insufficient(inventory, p, from, quantity)
           THEN Return("transfer", 400)
           ELSE IF from = to
           THEN Staged(s, "transfer",
                       <<[source_inventory EXCEPT !.quantity = (@ - quantity) + quantity]>>,
                       movements)
           ELSE Staged(s, "transfer",
                       <<[source_inventory EXCEPT !.quantity = @ - quantity],
                         [dest_inventory EXCEPT !.quantity = @ + quantity]>>,
                       movements)

\* scan_issue from its queries to the statement before the commit
scan_issue_read(s, p, w, quantity) ==
    /\ in_flight[s] = Idle
    /\ LET inventory_item == Loaded(inventory, p, w)
       IN  IF quantity <= 0
           THEN Return("scan_issue", 400)
           ELSE IF inventory_item.id = 0
           THEN Return("scan_issue", 404)
           ELSE IF inventory_item.quantity < quantity
           THEN Return("scan_issue", 400)
           ELSE Staged(s, "scan_issue",
                       <<[inventory_item EXCEPT !.quantity = @ - quantity]>>,
                       <<Movement(p, w, "out", quantity, "barcode_scan", 0, 0 - quantity)>>)

\* db.session.commit() of the handler in progress in session s, and the
\* except clause when the flush raises
commit(s) ==
    /\ in_flight[s] # Idle
    /\ LET flushed == flush_rows(inventory, in_flight[s].rows)
       IN  IF flushed.ok
           THEN /\ SetTables([DB EXCEPT !.inventory = flushed.inv,
                                        !.stock_movements = @ \o in_flight[s].movements])
                /\ response' = [op |-> in_flight[s].op, code |-> 200]
           ELSE /\ SetTables(DB)
                /\ response' = [op |-> in_flight[s].op, code |-> 500]
    /\ in_flight' = [in_flight EXCEPT ![s] = Idle]

\* ---- specifications -------------------------------------------------------
\* The stock ledger of routes/inventory.py: adjust and transfer.
Next ==
    \/ \E p \in Products, w \in Warehouses, d \in Quantities,
          t \in MovementTypes, fault \in AdjustFaults :
          adjust_inventory(p, w, d, t, NoReference, fault)
    \/ \E p \in Products, from \in Warehouses, to \in Warehouses,
          n \in Quantities, fault \in TransferFaults :
          transfer_inventory(p, from, to, n, fault)

Spec == Init /\ [][Next]_vars

\* Adjust alone, from the empty tables.
NextAdjust ==
    \E p \in Products, w \in Warehouses, d \in Quantities,
       t \in MovementTypes, fault \in AdjustFaults :
       adjust_inventory(p, w, d, t, NoReference, fault)

SpecAdjust == Init /\ [][NextAdjust]_vars

\* Adjust alone, the request body with or without its movement_type.
NextRequest ==
    \E p \in Products, w \in Warehouses, d \in Quantities,
       t \in AdjustTypes, fault \in AdjustFaults :
       adjust_inventory(p, w, d, t, NoReference, fault)

SpecRequest == Init /\ [][NextRequest]_vars

\* The barcode handlers of routes/barcode.py.
NextBarcode ==
    \/ \E p \in Products, w \in Warehouses, n \in Quantities : scan_receive(p, w, n)
    \/ \E p \in Products, w \in Warehouses, n \in Quantities : scan_issue(p, w, n)
    \/ \E p \in Products, w \in Warehouses, n \in Quantities : scan_count(p, w, n)

SpecBarcode == Init /\ [][NextBarcode]_vars

\* The handlers that write inventory rows directly: the inventory CRUD routes
\* and the CSV import.
NextDirect ==
    \/ \E p \in Products, w \in Warehouses, q \in Quantities :
          create_inventory_item(p, w, q)
    \/ \E id \in 1..Len(inventory), has_data \in BOOLEAN, q \in Quantities :
          update_inventory_item(id, has_data, q)
    \/ \E rows \in CsvFiles, update_existing \in BOOLEAN :
          import_inventory(rows, update_existing)

SpecDirect == Init /\ [][NextDirect]_vars

\* The purchase-order workflow of routes/purchase_orders.py.
OrderIds == 1..Len(purchase_orders)

NextOrders ==
    \/ \E supplier_found \in BOOLEAN, items \in ItemLists :
          create_purchase_order(supplier_found, items)
    \/ \E po_id \in OrderIds, status \in UpdateStatuses :
          update_purchase_order(po_id, status)
    \/ \E po_id \in OrderIds : approve_purchase_order(po_id)
    \/ \E po_id \in OrderIds, w \in Warehouses, lines \in LineLists :
          \E fault \in ReceiveFaults(lines) :
             receive_purchase_order(po_id, w, lines, fault)
    \/ \E po_id \in OrderIds : cancel_purchase_order(po_id)

SpecOrders == Init /\ [][NextOrders]_vars

\* Receive alone, from two approved orders of one item each: the state after
\* two creates and two approves.
ReceiveOrders == 2

InitReceive ==
    /\ inventory = <<>>
    /\ stock_movements = <<>>
    /\ purchase_orders = [po_id \in 1..ReceiveOrders |->
                             [status |-> "approved", total_amount |-> 6,
                              actual_delivery |-> FALSE]]
    /\ purchase_order_items = [po_id \in 1..ReceiveOrders |->
                                  [purchase_order_id |-> po_id, product_id |-> 1,
                                   quantity |-> 2, unit_price |-> 3,
                                   received_quantity |-> 0]]
    /\ response = [op |-> "approve", code |-> 200]
    /\ in_flight = [s \in Sessions |-> Idle]

NextReceive ==
    \E po_id \in OrderIds, w \in Warehouses, lines \in LineLists :
       \E fault \in ReceiveFaults(lines) :
          receive_purchase_order(po_id, w, lines, fault)

SpecReceive == InitReceive /\ [][NextReceive]_vars

\* Receive and cancel next to adjusts that add stock with or without a
\* reference, from the two approved orders.
NextReference ==
    \/ NextReceive
    \/ \E po_id \in OrderIds : cancel_purchase_order(po_id)
    \/ \E p \in Products, w \in Warehouses, d \in 1..MaxQty, reference \in References :
          adjust_inventory(p, w, d, "in", reference, 0)

SpecReference == InitReceive /\ [][NextReference]_vars

\* The purchase-order handlers that never touch the stock ledger: create and
\* the status changes.
NextCreate ==
    \/ \E supplier_found \in BOOLEAN, items \in ItemLists :
          create_purchase_order(supplier_found, items)
    \/ \E po_id \in OrderIds, status \in UpdateStatuses :
          update_purchase_order(po_id, status)
    \/ \E po_id \in OrderIds : approve_purchase_order(po_id)
    \/ \E po_id \in OrderIds : cancel_purchase_order(po_id)

SpecCreate == Init /\ [][NextCreate]_vars

\* The purchase-order workflow with the deletion of products and warehouses.
\* The products and warehouses tables are not part of the state: a deletion
\* that goes through leaves the four tables as they are.
NextDelete ==
    \/ NextOrders
    \/ \E p \in Products : delete_product(p)
    \/ \E w \in Warehouses : delete_warehouse(w)

SpecDelete == Init /\ [][NextDelete]_vars

\* Requests of the stock ledger in progress at the same time: each session
\* runs one handler, and the queries and commits of the sessions interleave.
NextConcurrent ==
    \/ \E s \in Sessions, p \in Products, w \in Warehouses, d \in Quantities,
          t \in MovementTypes : adjust_read(s, p, w, d, t)
    \/ \E s \in Sessions, p \in Products, from \in Warehouses, to \in Warehouses,
          n \in Quantities : transfer_read(s, p, from, to, n)
    \/ \E s \in Sessions : commit(s)

SpecConcurrent == Init /\ [][NextConcurrent]_vars

\* quantities of a call that takes stock out
Removals == 1..MaxQty

\* Requests that take stock out in progress at the same time (adjust with a
\* negative change, transfer and scan-issue of a positive quantity), beside
\* the adjusts that bring stock in.
NextRemove ==
    \/ \E s \in Sessions, p \in Products, w \in Warehouses, d \in Quantities,
          t \in MovementTypes : adjust_read(s, p, w, d, t)
    \/ \E s \in Sessions, p \in Products, from \in Warehouses, to \in Warehouses,
          n \in Removals : transfer_read(s, p, from, to, n)
    \/ \E s \in Sessions, p \in Products, w \in Warehouses, n \in Removals :
          scan_issue_read(s, p, w, n)
    \/ \E s \in Sessions : commit(s)

SpecRemove == Init /\ [][NextRemove]_vars

\* ---- properties ------------------------------------------------------------
RECURSIVE SumSeq(_)
\* sum of a sequence of integers
SumSeq(s) == IF s = <<>> THEN 0 ELSE s[1] + SumSeq(Tail(s))

\* sum of f(m) over the movements m of the pair (p, w)
SumOver(log, p, w, f(_)) ==
    SumSeq([i \in 1..Len(log) |->
               IF log[i].product_id = p /\ log[i].warehouse_id = w THEN f(log[i]) ELSE 0])

\* a movement taken with sign by type: 'in' positive, 'out' negative,
\* 'adjustment' with the sign of the change it recorded
Signed(m) ==
    IF m.movement_type = "in" THEN m.quantity
    ELSE IF m.movement_type = "out" THEN 0 - m.quantity
    ELSE IF m.change < 0 THEN 0 - m.quantity ELSE m.quantity

Change(m) == m.change

\* the visible fields of the last k movements of the log
LastMovements(log, k) ==
    [i \in 1..k |->
        LET m == log[Len(log) - k + i]
        IN  <<m.product_id, m.warehouse_id, m.movement_type, m.quantity>>]

Untouched == DB' = DB

\* C1: after any sequence of ledger operations with arbitrary integer
\* arguments every StockLevel has quantity >= 0.
C1_NonNegative ==
    \A i \in 1..Len(inventory) : inventory[i].quantity >= 0

\* C2: for every (product, warehouse) pair the sum of its movements taken with
\* sign by type equals the current quantity of the pair (0 without a row).
C2_Reconciles ==
    \A pr \in Pairs :
        SumOver(stock_movements, pr[1], pr[2], Signed) = Quantity(inventory, pr[1], pr[2])

\* what an adjust of d on the pair (p, w) with movement type t leaves when it
\* has applied its delta and appended its movement
AdjustApplied(p, w, d, t) ==
    /\ HasRow(inventory', p, w)
    /\ Quantity(inventory', p, w) = Quantity(inventory, p, w) + d
    /\ Len(stock_movements') = Len(stock_movements) + 1
    /\ SubSeq(stock_movements', 1, Len(stock_movements)) = stock_movements
    /\ LastMovements(stock_movements', 1) = <<(<<p, w, t, abs(d)>>)>>

\* C4: adjust is atomic: every adjust, also one that fails at any point,
\* leaves a committed state in which it has both applied its delta and
\* appended its movement, or done neither.
C4_AdjustAtomic ==
    [][response'.op = "adjust" =>
          \/ Untouched
          \/ \E p \in Products, w \in Warehouses, d \in Quantities, t \in MovementTypes :
                AdjustApplied(p, w, d, t)]_vars

\* a failed adjust follows earlier successful ones
C4_Witness ==
    /\ response = [op |-> "adjust", code |-> 500]
    /\ Len(stock_movements) = 2
    /\ Len(inventory) = 1

\* C5: an adjust whose delta would make the quantity negative returns the
\* insufficient-stock error (400) and leaves the set of rows, every quantity
\* and the movement history unchanged.
C5_AdjustRejected ==
    [][response'.op = "adjust" =>
          \A p \in Products, w \in Warehouses, d \in Quantities, t \in MovementTypes :
              (/\ Quantity(inventory, p, w) + d < 0
               /\ adjust_inventory(p, w, d, t, NoReference, 0)) =>
                  (response'.code = 400 /\ Untouched)]_vars

\* an adjust was rejected for a pair that has no row, and no row was created
C5_Witness ==
    /\ response = [op |-> "adjust", code |-> 400]
    /\ inventory = <<>>

\* C6: after any sequence of adjust calls on pairs that start without a row,
\* the quantity of each pair is 0 plus the sum of the deltas of the calls
\* that succeeded.
C6_AdjustSum ==
    \A pr \in Pairs :
        Quantity(inventory, pr[1], pr[2]) = SumOver(stock_movements, pr[1], pr[2], Change)

\* several adjusts of both signs succeeded on one pair and one was rejected
C6_Witness ==
    /\ response = [op |-> "adjust", code |-> 400]
    /\ \E pr \in Pairs :
          /\ Quantity(inventory, pr[1], pr[2]) = 1
          /\ \E i, j \in 1..Len(stock_movements) :
                /\ stock_movements[i].change > 0
                /\ stock_movements[j].change < 0
                /\ stock_movements[i].warehouse_id = pr[2]
                /\ stock_movements[j].warehouse_id = pr[2]

\* what a transfer of n from A to B that went through leaves
TransferApplied(p, A, B, n) ==
    /\ Quantity(inventory', p, A) = Quantity(inventory, p, A) - n
    /\ Quantity(inventory', p, B) = Quantity(inventory, p, B) + n
    /\ HasRow(inventory', p, B)
    /\ Len(stock_movements') = Len(stock_movements) + 2
    /\ SubSeq(stock_movements', 1, Len(stock_movements)) = stock_movements
    /\ LastMovements(stock_movements', 2) = <<(<<p, A, "out", n>>), (<<p, B, "in", n>>)>>

\* C7 as stated: for all p, A, B and n, transfer(p, A, B, n) when A holds at
\* least n decreases A by n, increases B by n (creating B's row) and appends
\* exactly the two movements 'out' n at A and 'in' n at B.
C7_TransferAnyPair ==
    [][response'.op = "transfer" =>
          \A p \in Products, A \in Warehouses, B \in Warehouses, n \in Quantities :
              (/\ HasRow(inventory, p, A)
               /\ Quantity(inventory, p, A) >= n
               /\ transfer_inventory(p, A, B, n, 0)) => TransferApplied(p, A, B, n)]_vars

\* C7 amended: the same for distinct warehouses A and B.
C7_TransferDistinct ==
    [][response'.op = "transfer" =>
          \A p \in Products, A \in Warehouses, B \in Warehouses, n \in Quantities :
              (/\ A # B
               /\ HasRow(inventory, p, A)
               /\ Quantity(inventory, p, A) >= n
               /\ transfer_inventory(p, A, B, n, 0)) => TransferApplied(p, A, B, n)]_vars

\* a transfer of one unit between two warehouses went through and created
\* the destination row
C7_Witness ==
    /\ response = [op |-> "transfer", code |-> 200]
    /\ Len(stock_movements) = 3
    /\ LastMovements(stock_movements, 2) = <<(<<1, 1, "out", 1>>), (<<1, 2, "in", 1>>)>>
    /\ Len(inventory) = 2
    /\ Quantity(inventory, 1, 2) = 1

\* both sides of a transfer of n from A to B applied, with its two movements
BothSides(p, A, B, n) ==
    /\ HasRow(inventory, p, A)
    /\ HasRow(inventory', p, B)
    /\ Quantity(inventory', p, A) = Quantity(inventory, p, A) - (IF A = B THEN 0 ELSE n)
    /\ Quantity(inventory', p, B) = Quantity(inventory, p, B) + (IF A = B THEN 0 ELSE n)
    /\ Len(stock_movements') = Len(stock_movements) + 2
    /\ SubSeq(stock_movements', 1, Len(stock_movements)) = stock_movements
    /\ LastMovements(stock_movements', 2) = <<(<<p, A, "out", n>>), (<<p, B, "in", n>>)>>

\* C8: transfer(p, A, B, n) when A has no row or holds fewer than n returns
\* the insufficient-stock error (400), changes no row, creates none and
\* appends no movement; and no transfer, failed ones included, ends with only
\* one of its two sides applied.
C8_TransferAllOrNothing ==
    [][response'.op = "transfer" =>
          /\ \A p \in Products, A \in Warehouses, B \in Warehouses, n \in Quantities :
                (/\ ~HasRow(inventory, p, A) \/ Quantity(inventory, p, A) < n
                 /\ transfer_inventory(p, A, B, n, 0)) =>
                    (response'.code = 400 /\ Untouched)
          /\ \/ Untouched
             \/ \E p \in Products, A \in Warehouses, B \in Warehouses, n \in Quantities :
                   BothSides(p, A, B, n)]_vars

\* a transfer was rejected although the source has a row with stock, and the
\* destination has no row
C8_Witness ==
    /\ response = [op |-> "transfer", code |-> 400]
    /\ Len(inventory) = 1
    /\ inventory[1].quantity = 1
    /\ Len(stock_movements) = 1

\* C3: every operation that changes the quantity of a StockLevel appends at
\* least one movement for that (product, warehouse) pair in the same commit.
C3_ChangeRecorded ==
    [][\A pr \in Pairs :
          Quantity(inventory', pr[1], pr[2]) # Quantity(inventory, pr[1], pr[2]) =>
              /\ Len(stock_movements') > Len(stock_movements)
              /\ \E i \in (Len(stock_movements) + 1)..Len(stock_movements') :
                    /\ stock_movements'[i].product_id = pr[1]
                    /\ stock_movements'[i].warehouse_id = pr[2]]_vars

\* C9: a purchase order has status 'received' if and only if every one of
\* its items has received_quantity >= quantity.
C9_ReceivedIffComplete ==
    \A po_id \in 1..Len(purchase_orders) :
        purchase_orders[po_id].status = "received" <=> all_received(DB, po_id)

\* position of a status on the path pending -> approved -> ordered -> received
Rank(status) ==
    IF status = "pending" THEN 0
    ELSE IF status = "approved" THEN 1
    ELSE IF status = "ordered" THEN 2
    ELSE 3

\* C10: the status of a purchase order only changes forward along
\* pending -> approved -> ordered -> received, or to cancelled from pending,
\* approved or ordered, and never takes a value outside the five statuses.
C10_StatusForward ==
    [][\A po_id \in 1..Len(purchase_orders) :
          LET old == purchase_orders[po_id].status
              new == purchase_orders'[po_id].status
          IN  /\ new \in Statuses
              /\ \/ new = old
                 \/ /\ old \in {"pending", "approved", "ordered"}
                    /\ new \in {"approved", "ordered", "received"}
                    /\ Rank(old) < Rank(new)
                 \/ /\ old \in {"pending", "approved", "ordered"}
                    /\ new = "cancelled"]_vars

\* C11: 'received' and 'cancelled' are terminal: once an order has one of
\* them no operation (approve, receive, cancel, update) changes its status,
\* and a cancel of such an order returns the invalid-state error (409) and
\* changes nothing.
C11_Terminal ==
    [][\A po_id \in 1..Len(purchase_orders) :
          purchase_orders[po_id].status \in {"received", "cancelled"} =>
              /\ purchase_orders'[po_id].status = purchase_orders[po_id].status
              /\ (response'.op = "cancel" /\ cancel_purchase_order(po_id)) =>
                    (response'.code = 409 /\ Untouched)]_vars

\* a cancel was rejected on an order that a receive had completed
C11_Witness ==
    /\ response = [op |-> "cancel", code |-> 409]
    /\ Len(purchase_orders) = 1
    /\ purchase_orders[1].status = "received"
    /\ purchase_orders[1].actual_delivery

\* C12: the received_quantity of every purchase-order item never decreases,
\* whatever received_quantity values (zero and negative included) the
\* receive calls pass.
C12_ReceivedMonotone ==
    [][\A i \in 1..Len(purchase_order_items) :
          /\ i <= Len(purchase_order_items')
          /\ purchase_order_items'[i].received_quantity >=
                purchase_order_items[i].received_quantity]_vars

\* receive calls have raised an item's received_quantity twice while the
\* order stays open for further calls
C12_Witness ==
    /\ response = [op |-> "receive", code |-> 200]
    /\ Len(purchase_orders) = 1
    /\ purchase_orders[1].status = "approved"
    /\ \E i \in 1..Len(purchase_order_items) :
          /\ purchase_order_items[i].received_quantity = 2
          /\ purchase_order_items[i].quantity = 2
    /\ Len(stock_movements) = 2

\* C13: a receive on an order whose status is not approved or ordered
\* returns the invalid-state error (409) and changes no item's
\* received_quantity, no inventory row, no movement and not the status.
C13_ReceiveRejected ==
    [][response'.op = "receive" =>
          \A po_id \in 1..Len(purchase_orders), w \in Warehouses, lines \in LineLists :
              (/\ purchase_orders[po_id].status \notin {"approved", "ordered"}
               /\ receive_purchase_order(po_id, w, lines, 0)) =>
                  (response'.code = 409 /\ Untouched)]_vars

\* a receive was rejected on a pending order and left its item untouched
C13_Witness ==
    /\ response = [op |-> "receive", code |-> 409]
    /\ Len(purchase_orders) = 1
    /\ purchase_orders[1].status = "pending"
    /\ Len(purchase_order_items) = 1
    /\ purchase_order_items[1].received_quantity = 0
    /\ inventory = <<>>
    /\ stock_movements = <<>>

\* C14: approve succeeds only on a pending order, and then sets its status
\* to approved and changes nothing else; in every other status it returns
\* the invalid-state error (409) and leaves the order unchanged.
C14_ApproveOnlyPending ==
    [][response'.op = "approve" =>
          \A po_id \in 1..Len(purchase_orders) :
              approve_purchase_order(po_id) =>
                  IF purchase_orders[po_id].status = "pending"
                  THEN /\ response'.code = 200
                       /\ purchase_orders' =
                             [purchase_orders EXCEPT ![po_id].status = "approved"]
                       /\ UNCHANGED <<inventory, stock_movements, purchase_order_items>>
                  ELSE response'.code = 409 /\ Untouched]_vars

\* an approve was rejected on an order that was approved before
C14_Witness ==
    /\ response = [op |-> "approve", code |-> 409]
    /\ Len(purchase_orders) = 1
    /\ purchase_orders[1].status = "approved"

\* what a receive of the order po_id into warehouse w leaves when it has
\* committed: the items of the order that gained, each with an equal gain of
\* the inventory row of its product and one 'in' movement of that quantity
ReceiveCommitted(po_id, w) ==
    LET n == Len(stock_movements') - Len(stock_movements)
        gain(i) == purchase_order_items'[i].received_quantity -
                      purchase_order_items[i].received_quantity
        moved(i) == SumSeq([k \in 1..n |->
                       LET m == stock_movements'[Len(stock_movements) + k]
                       IN  IF m.product_id = purchase_order_items[i].product_id
                              /\ m.warehouse_id = w /\ m.movement_type = "in"
                              /\ m.reference_id = po_id
                           THEN m.quantity ELSE 0])
    IN  /\ Len(purchase_order_items') = Len(purchase_order_items)
        /\ \A p \in Products :
              Quantity(inventory', p, w) - Quantity(inventory, p, w) =
                 SumSeq([i \in 1..Len(purchase_order_items) |->
                            IF purchase_order_items[i].product_id = p THEN gain(i) ELSE 0])
        /\ SumSeq([i \in 1..Len(purchase_order_items) |-> gain(i)]) =
              SumSeq([k \in 1..n |-> stock_movements'[Len(stock_movements) + k].quantity])
        /\ \A k \in 1..n : stock_movements'[Len(stock_movements) + k].warehouse_id = w

\* C15: receive is all-or-nothing: a receive call that fails, while or after
\* processing its lines, commits none of its changes: no received_quantity,
\* no inventory quantity, no movement and not the status; a call that does
\* not fail commits the changes of all its lines together.
C15_ReceiveAllOrNothing ==
    [][response'.op = "receive" =>
          /\ response'.code # 200 => Untouched
          /\ response'.code = 200 =>
                \E po_id \in 1..Len(purchase_orders), w \in Warehouses :
                    ReceiveCommitted(po_id, w)]_vars

\* a receive failed after an earlier receive had put stock into the warehouse:
\* the earlier receipt is all that is recorded
C15_Witness ==
    /\ response = [op |-> "receive", code |-> 500]
    /\ Len(purchase_orders) = 1
    /\ purchase_orders[1].status = "approved"
    /\ Len(stock_movements) = 1
    /\ \E i \in 1..Len(purchase_order_items) :
          purchase_order_items[i].received_quantity = 1

\* C16: a created purchase order has status pending and total_amount equal
\* to the sum of quantity x unit_price over its items, and no later operation
\* (approve, receive, cancel, update) changes its total_amount. Unit prices
\* are amounts in the unit of the column's scale.
C16_TotalFixed ==
    [][/\ \A po_id \in 1..Len(purchase_orders) :
             /\ po_id <= Len(purchase_orders')
             /\ purchase_orders'[po_id].total_amount = purchase_orders[po_id].total_amount
       /\ \A po_id \in (Len(purchase_orders) + 1)..Len(purchase_orders') :
             /\ purchase_orders'[po_id].status = "pending"
             /\ purchase_orders'[po_id].total_amount =
                   SumSeq([i \in 1..Len(purchase_order_items') |->
                              IF purchase_order_items'[i].purchase_order_id = po_id
                              THEN purchase_order_items'[i].quantity *
                                      purchase_order_items'[i].unit_price
                              ELSE 0])]_vars

\* an order of two items of 2 x 3 each was created with total 12, then
\* approved and partly received: the total is still 12
C16_Witness ==
    /\ response = [op |-> "receive", code |-> 200]
    /\ Len(purchase_orders) = 1
    /\ purchase_orders[1].status = "approved"
    /\ purchase_orders[1].total_amount = 12
    /\ Len(purchase_order_items) = 2
    /\ purchase_order_items[1].received_quantity = 1

\* C17: a create from a known supplier with known products is rejected with
\* the invalid-argument error (400) and persists no order and no item
\* whenever the items list is empty or some item has a quantity or a
\* unit_price that is zero or negative.
C17_CreateRejected ==
    [][response'.op = "create" =>
          \A items \in ItemLists :
              (/\ \/ items = <<>>
                  \/ \E i \in 1..Len(items) :
                        items[i].quantity <= 0 \/ items[i].unit_price <= 0
               /\ \A i \in 1..Len(items) : items[i].product_id \in Products
               /\ create_purchase_order(TRUE, items)) =>
                  (response'.code = 400 /\ Untouched)]_vars

\* the request's first defect is an unknown product: some item names a
\* product that does not exist, with its own fields and every earlier item
\* valid
UnknownProduct(items) ==
    \E k \in 1..Len(items) :
        /\ items[k].product_id \notin Products
        /\ \A i \in 1..k : items[i].quantity # 0 /\ items[i].unit_price # 0
        /\ \A i \in 1..(k - 1) : items[i].product_id \in Products

\* C18: a create with items that names an unknown supplier, or one whose
\* item (first or later, after earlier valid items were added) names an
\* unknown product, returns not-found (404) and leaves no purchase order and
\* no purchase-order item of the request in the committed state.
C18_CreateNotFound ==
    [][response'.op = "create" =>
          \A supplier_found \in BOOLEAN, items \in ItemLists :
              (/\ items # <<>>
               /\ ~supplier_found \/ UnknownProduct(items)
               /\ create_purchase_order(supplier_found, items)) =>
                  (/\ response'.code = 404
                   /\ purchase_orders' = purchase_orders
                   /\ purchase_order_items' = purchase_order_items
                   /\ Untouched)]_vars

\* a create was answered not-found after an earlier order was committed, and
\* that order with its two items is all the tables hold
C18_Witness ==
    /\ response = [op |-> "create", code |-> 404]
    /\ Len(purchase_orders) = 1
    /\ Len(purchase_order_items) = 2

\* C19: in every reachable state there is at most one inventory row per
\* (product, warehouse) pair, also when handlers that create the row lazily
\* run at the same time for a pair that had none.
C19_OneRowPerPair ==
    \A i, j \in 1..Len(inventory) :
        (/\ inventory[i].product_id = inventory[j].product_id
         /\ inventory[i].warehouse_id = inventory[j].warehouse_id) => i = j

\* two adjusts ran at the same time for a pair that had no row: the first
\* commit inserted the row, the second was refused and answered 500
C19_Witness ==
    /\ response = [op |-> "adjust", code |-> 500]
    /\ Len(inventory) = 1
    /\ Len(stock_movements) = 1
    /\ \A s \in Sessions : in_flight[s] = Idle

\* C20: no lost updates: the quantity of every pair is the sum of the
\* changes of all the committed calls on it, also when the calls ran at the
\* same time.
C20_NoLostUpdate ==
    \A pr \in Pairs :
        Quantity(inventory, pr[1], pr[2]) = SumOver(stock_movements, pr[1], pr[2], Change)

\* C21: under any interleaving of adjust, transfer and scan-issue calls on the
\* same (product, warehouse) row, each taking out a positive quantity, no
\* committed state has a negative inventory quantity.
C21_ConcurrentNonNegative ==
    \A i \in 1..Len(inventory) : inventory[i].quantity >= 0

\* two calls took stock out of the same row at the same time: both read the
\* one unit in stock, both committed, and the row is at 0
C21_Witness ==
    /\ \A s \in Sessions : in_flight[s] = Idle
    /\ response.code = 200
    /\ Len(inventory) = 1
    /\ inventory[1].quantity = 0
    /\ Len(stock_movements) = 3
    /\ stock_movements[1].change = 1
    /\ stock_movements[2].change = 0 - 1
    /\ stock_movements[3].change = 0 - 1

\* C22: a count of (p, w) with c equal to the current quantity leaves every
\* quantity unchanged and appends no movement, and count is idempotent: a
\* count that succeeded leaves the row of (p, w) present with quantity c, and
\* the same count on a present row with quantity c changes nothing, so a
\* second call in a row leaves what the first left.
C22_CountIdempotent ==
    [][response'.op = "scan_count" =>
          \A p \in Products, w \in Warehouses, c \in Quantities :
              (c >= 0 /\ scan_count(p, w, c)) =>
                  /\ response'.code = 200
                  /\ HasRow(inventory', p, w)
                  /\ Quantity(inventory', p, w) = c
                  /\ c = Quantity(inventory, p, w) =>
                        /\ stock_movements' = stock_movements
                        /\ \A pr \in Pairs : Quantity(inventory', pr[1], pr[2]) =
                                                Quantity(inventory, pr[1], pr[2])
                  /\ (c = Quantity(inventory, p, w) /\ HasRow(inventory, p, w)) =>
                        Untouched]_vars

\* a count confirmed the quantity a scan-receive had left: one unit in stock
\* and the receipt's movement as the whole history
C22_Witness ==
    /\ response = [op |-> "scan_count", code |-> 200]
    /\ Len(inventory) = 1
    /\ inventory[1].quantity = 1
    /\ Len(stock_movements) = 1
    /\ stock_movements[1].reference_type = "barcode_scan"

\* C28: a count of (p, w) with c >= 0 and c different from the current
\* quantity sets the quantity of the pair to exactly c and appends exactly
\* one movement, of type 'adjustment' and quantity |c - previous quantity|;
\* a count with c < 0 is rejected (400) and changes nothing.
C28_CountSets ==
    [][response'.op = "scan_count" =>
          \A p \in Products, w \in Warehouses, c \in Quantities :
              /\ (c >= 0 /\ c # Quantity(inventory, p, w) /\ scan_count(p, w, c)) =>
                    /\ response'.code = 200
                    /\ Quantity(inventory', p, w) = c
                    /\ \A pr \in Pairs \ {<<p, w>>} :
                          Quantity(inventory', pr[1], pr[2]) =
                             Quantity(inventory, pr[1], pr[2])
                    /\ Len(stock_movements') = Len(stock_movements) + 1
                    /\ SubSeq(stock_movements', 1, Len(stock_movements)) = stock_movements
                    /\ LastMovements(stock_movements', 1) =
                          <<(<<p, w, "adjustment", abs(c - Quantity(inventory, p, w))>>)>>
              /\ (c < 0 /\ scan_count(p, w, c)) =>
                    (response'.code = 400 /\ Untouched)]_vars

\* a count of 0 took a row that held two units down to 0 and recorded an
\* adjustment of 2
C28_Witness ==
    /\ response = [op |-> "scan_count", code |-> 200]
    /\ Len(stock_movements) = 3
    /\ stock_movements[3].movement_type = "adjustment"
    /\ stock_movements[3].quantity = 2
    /\ \E i \in 1..Len(inventory) : inventory[i].quantity = 0

\* C23: the movement history is append-only: across every step of every
\* operation, the deletion of products and warehouses included, each
\* movement present before the step is present after it with identical
\* field values.
C23_AppendOnly ==
    [][/\ Len(stock_movements') >= Len(stock_movements)
       /\ SubSeq(stock_movements', 1, Len(stock_movements)) = stock_movements]_vars

\* the deletion of a product with received stock was refused: the movements
\* of the two receipts are the history
C23_Witness ==
    /\ response = [op |-> "delete_product", code |-> 409]
    /\ Len(stock_movements) = 2
    /\ \A i \in 1..Len(stock_movements) : stock_movements[i].warehouse_id = 1

\* C24: every movement ever recorded has quantity > 0, for any input that
\* adjust (a change of 0 included) and transfer (a quantity of 0 or below
\* included) accept.
C24_PositiveQuantity ==
    \A i \in 1..Len(stock_movements) : stock_movements[i].quantity > 0

\* the 'out' movements of product p and their total quantity
OutMovements(p) ==
    {m \in 1..Len(stock_movements) :
        stock_movements[m].product_id = p /\ stock_movements[m].movement_type = "out"}

TotalOut(p) ==
    SumSeq([m \in 1..Len(stock_movements) |->
               IF m \in OutMovements(p) THEN stock_movements[m].quantity ELSE 0])

\* C25: in the turnover report every product with at least one 'out'
\* movement has a row whose total is the sum of the quantities of its 'out'
\* movements and whose average is the average quantity of its inventory
\* rows, for a product stocked in any number of warehouses.
C25_TurnoverTotal ==
    \A p \in Products :
        OutMovements(p) # {} =>
            LET row == get_inventory_turnover(inventory, stock_movements, p)
                ids == {i \in 1..Len(inventory) : inventory[i].product_id = p}
            IN  /\ row.reported
                /\ row.total_movement = TotalOut(p)
                /\ row.avg_sum * Cardinality(ids) =
                      row.avg_count *
                         SumSeq([i \in 1..Len(inventory) |->
                                    IF i \in ids THEN inventory[i].quantity ELSE 0])

\* the type the movement of an adjust is said to carry: the caller's, or
\* with none given the sign of the delta
InferredType(quantity_change, movement_type) ==
    IF movement_type # NoField THEN movement_type
    ELSE IF quantity_change > 0 THEN "in" ELSE "out"

\* C26: an adjust that does not make the quantity negative, with or without
\* a movement type, succeeds and appends exactly one movement whose quantity
\* is |delta| and whose type is the caller's or, with none given, 'in' for
\* a positive and 'out' for a negative delta.
C26_AdjustMovement ==
    [][response'.op = "adjust" =>
          \A p \in Products, w \in Warehouses, d \in Quantities \ {0}, t \in AdjustTypes :
              (/\ Quantity(inventory, p, w) + d >= 0
               /\ adjust_inventory(p, w, d, t, NoReference, 0)) =>
                  /\ response'.code = 200
                  /\ Len(stock_movements') = Len(stock_movements) + 1
                  /\ SubSeq(stock_movements', 1, Len(stock_movements)) = stock_movements
                  /\ LET m == stock_movements'[Len(stock_movements')]
                     IN  /\ m.quantity = abs(d)
                         /\ m.movement_type = InferredType(d, t)
                         /\ m.product_id = p
                         /\ m.warehouse_id = w]_vars

\* the lines of a receive request that count: a positive quantity for an item
\* of the order
CountedLines(lines, po_id) ==
    LET counted(line) ==
            /\ line.received_quantity > 0
            /\ line.po_item_id \in 1..Len(purchase_order_items)
            /\ purchase_order_items[line.po_item_id].purchase_order_id = po_id
    IN  SelectSeq(lines, counted)

\* what the lines of a receive of order po_id into warehouse w are said to
\* do: each counted line one 'in' movement of its quantity and that much more
\* stock of its product in w, every other line nothing
ReceiveEffect(po_id, w, lines) ==
    LET counted == CountedLines(lines, po_id)
        product(k) == purchase_order_items[counted[k].po_item_id].product_id
    IN  /\ Len(stock_movements') = Len(stock_movements) + Len(counted)
        /\ SubSeq(stock_movements', 1, Len(stock_movements)) = stock_movements
        /\ \A k \in 1..Len(counted) :
              LET m == stock_movements'[Len(stock_movements) + k]
              IN  /\ m.product_id = product(k)
                  /\ m.warehouse_id = w
                  /\ m.movement_type = "in"
                  /\ m.quantity = counted[k].received_quantity
                  /\ m.reference_type = "purchase_order"
                  /\ m.reference_id = po_id
                  /\ HasRow(inventory', product(k), w)
        /\ \A pr \in Pairs :
              /\ Quantity(inventory', pr[1], pr[2]) - Quantity(inventory, pr[1], pr[2]) =
                    SumSeq([k \in 1..Len(counted) |->
                               IF product(k) = pr[1] /\ w = pr[2]
                               THEN counted[k].received_quantity ELSE 0])
              /\ HasRow(inventory', pr[1], pr[2]) =>
                    \/ HasRow(inventory, pr[1], pr[2])
                    \/ \E k \in 1..Len(counted) : product(k) = pr[1] /\ w = pr[2]

\* C27: in a successful receive into warehouse w every line with r > 0 for
\* an item of the order adds exactly r to the quantity of (the item's
\* product, w), the row created at 0 first when absent, and appends exactly
\* one 'in' movement of quantity r with reference_type 'purchase_order' and
\* reference_id the order's id; lines with r <= 0 or for an item of another
\* order change nothing.
C27_ReceiveLines ==
    [][response' = [op |-> "receive", code |-> 200] =>
          \A po_id \in OrderIds, w \in Warehouses, lines \in LineLists :
              receive_purchase_order(po_id, w, lines, 0) =>
                  ReceiveEffect(po_id, w, lines)]_vars

\* a receive of the first of two orders succeeded: the one movement recorded
\* refers to that order, its item has gained and the other order's has not,
\* and the row it created holds the quantity received
C27_Witness ==
    /\ response = [op |-> "receive", code |-> 200]
    /\ Len(purchase_orders) = 2
    /\ Len(stock_movements) = 1
    /\ stock_movements[1].reference_id = 1
    /\ purchase_order_items[1].received_quantity = 1
    /\ purchase_order_items[2].received_quantity = 0
    /\ Len(inventory) = 1
    /\ inventory[1].quantity = 1

\* C29: a purchase order whose status is 'received' has its actual_delivery
\* set, and an order with any other status has none.
C29_DeliveredIffReceived ==
    \A po_id \in 1..Len(purchase_orders) :
        (purchase_orders[po_id].status = "received") = purchase_orders[po_id].actual_delivery

\* the quantity received for order po_id according to its items, and
\* according to the 'in' movements that refer to it
ReceivedByItems(po_id) ==
    SumSeq([i \in 1..Len(purchase_order_items) |->
               IF purchase_order_items[i].purchase_order_id = po_id
               THEN purchase_order_items[i].received_quantity ELSE 0])

ReceivedByMovements(po_id) ==
    SumSeq([m \in 1..Len(stock_movements) |->
               IF /\ stock_movements[m].movement_type = "in"
                  /\ stock_movements[m].reference_type = "purchase_order"
                  /\ stock_movements[m].reference_id = po_id
               THEN stock_movements[m].quantity ELSE 0])

\* C30: for every purchase order the sum of received_quantity over its items
\* equals the sum of the quantities of the 'in' movements with
\* reference_type 'purchase_order' and reference_id the order's id, also
\* after over-receipt, repeated partial receipts and cancellation.
C30_ReceivedMatchesMovements ==
    \A po_id \in 1..Len(purchase_orders) :
        ReceivedByItems(po_id) = ReceivedByMovements(po_id)

\* C30 (as the handlers have it): every purchase-order operation changes,
\* for every order, the sum of received_quantity over its items and the sum
\* of the quantities of the 'in' movements that refer to it by the same
\* amount, also on over-receipt, repeated partial receipts and
\* cancellation; the two sums differ only by the 'in' movements that adjust
\* records with a purchase-order reference of the caller's.
C30_ReceivedInStep ==
    [][response'.op \in {"create", "update", "approve", "receive", "cancel"} =>
          \A po_id \in 1..Len(purchase_orders') :
              ReceivedByItems(po_id)' - ReceivedByItems(po_id) =
                 ReceivedByMovements(po_id)' - ReceivedByMovements(po_id)]_vars

\* the first order was cancelled after one partial receipt and the second was
\* received in two partial receipts
C30_Witness ==
    /\ Len(purchase_orders) = 2
    /\ purchase_orders[1].status = "cancelled"
    /\ purchase_orders[2].status = "received"
    /\ purchase_order_items[1].received_quantity = 1
    /\ purchase_order_items[2].received_quantity = 2
    /\ Len(stock_movements) = 3
    /\ \A m \in 1..3 : stock_movements[m].reference_type = "purchase_order"

====
